---- MODULE Spec2Model ----
(***************************************************************************)
(* Restaurant point of sale: the order lifecycle, the stock ledger of the  *)
(* immediate-sale path and the notification log, as the pages implement    *)
(* them on top of the IndexedDB store (src/src/utils/database.ts).         *)
(*                                                                         *)
(* Every open page is a view with its own React state (its last loaded     *)
(* copy of the store); the store and the localStorage notification log are *)
(* the only shared state.  Money is in whole rupees; the menu prices are   *)
(* multiples of 100, so that total * 0.16 and total * 0.05 are integers.   *)
(*                                                                         *)
(* The cart, the selected table and the discount of a TakeOrders or        *)
(* POSSystem view are React state built by addToCart / updateQuantity /    *)
(* removeFromCart and the table and discount inputs from the copies the    *)
(* view loaded.  Those copies change only in loadData and in the reset at  *)
(* the end of a successful submit, and both leave the cart empty and no    *)
(* table selected; so when a submit handler runs, every cart line carries  *)
(* the menu item as the view has it loaded and the table is one the view   *)
(* shows as available.  The submit actions therefore take the cart, the    *)
(* table and the discount as inputs, drawn from what those handlers can    *)
(* build from the loaded copies (Carts, Selectable), the empty cart and no  *)
(* table among them.                                                       *)
(*                                                                         *)
(* Every view also mounts a NotificationProvider (src/unnamed/part_002):   *)
(* its in-memory list, the storage events of other views' writes to the    *)
(* log that it has not handled yet, and the list length its storage        *)
(* listener was registered with.  A storage event reaches only the other   *)
(* views, and a view's reload effect is due when the length of its list    *)
(* differs from the one the effect last ran with.                          *)
(*                                                                         *)
(* A Kitchen or Orders view polls the store while the interval its mount   *)
(* effect created is live.  The admin's MenuManagement view edits and      *)
(* deletes menu items from its own loaded copy of the menu.                *)
(***************************************************************************)
EXTENDS Integers, Sequences, FiniteSets, TLC

\* ------------------------------------------------------------------ bounds
MaxOrders == 2          \* orders created in one behaviour (uuid draws)
InitStock == 2          \* seeded stock of every menu item
CreateCap == 1          \* orders created in one behaviour of SpecCreate
LifecycleCap == 1       \* orders created in one behaviour of SpecLifecycle
HandlersCap == 1        \* orders created in one behaviour of SpecHandlers
NotifyCap == 1          \* orders created in one behaviour of SpecNotify
PollCap == 1            \* orders created in one behaviour of SpecPolling
MenuCap == 1            \* orders created in one behaviour of SpecMenu

\* ------------------------------------------------------- program constants
TaxPercent == 16
ServicePercent == 5
LogKeep == 49

\* ------------------------------------------------------------- the domain
Items == {"A", "B"}
Price == [i \in Items |-> IF i = "A" THEN 100 ELSE 200]
Tables == {"T1", "T2"}
OrderIds == 1..MaxOrders
Discounts == {0, 100}
MenuPrices == {Price[i] : i \in Items}

Status == {"pending", "in-progress", "ready", "served", "cancelled"}
Roles == {"admin", "cashier", "waiter", "chef"}

\* The open views (one browser tab each) and the user logged in on each.
KViews == {"k1", "k2"}
OViews == {"o1", "o2", "o3"}
PViews == {"p1", "p2"}
TViews == {"t1"}
Views == KViews \cup OViews \cup PViews \cup TViews

\* The MenuManagement views (admin only); they take no part in notifications.
MViews == {"m1"}
Role == [v \in Views \cup MViews |->
           CASE v = "k1" -> "chef"
             [] v = "k2" -> "admin"
             [] v = "o1" -> "cashier"
             [] v = "o2" -> "waiter"
             [] v = "o3" -> "admin"
             [] v = "p1" -> "cashier"
             [] v = "p2" -> "admin"
             [] v = "m1" -> "admin"
             [] OTHER    -> "waiter"]

\* ProtectedRoute: the roles each page admits.
AllowedRoles(page) ==
    CASE page = "pos"         -> {"cashier", "admin"}
      [] page = "take-orders" -> {"waiter", "admin"}
      [] page = "kitchen"     -> {"chef", "admin"}
      [] page = "menu"        -> {"admin"}
      [] OTHER                -> Roles

NoOrder == [status |-> "absent"]
NoTable == ""

\* No menu item is stored under the id (a stored item has a price above 0).
NoItem == [price |-> 0, stock |-> 0]

VARIABLES
    orders,       \* store: order id -> Order record, or NoOrder
    orderItems,   \* store: set of OrderItem records
    tables,       \* store: table id -> status
    menuItems,    \* store: menu item id -> [price, stock]
    payments,     \* store: set of Payment records
    nextOrderId,  \* the next fresh order id (uuidv4)
    log,          \* localStorage 'notifications', newest first
    kOrders,      \* Kitchen view -> its loaded orders
    oOrders,      \* Orders view -> its loaded orders
    pos,          \* POSSystem view -> its React state
    take,         \* TakeOrders view -> its React state
    published,    \* history: how often each event was passed to addNotification
    created,      \* history: what each create was asked and how it ended
    sold,         \* history: quantity deducted by sales, per menu item
    everStatus,   \* history: the statuses each order has had in the store
    lastOp,       \* history: the last operation that wrote to the store
    notifications,\* view -> the notifications state of its NotificationProvider
    inbox,        \* view -> the storage events (newValue) not yet handled by it
    heardLen,     \* view -> notifications.length its reload effect last ran with
    alerts,       \* history: view -> event -> times playNotificationSound ran for it
    attempt,      \* history: the last handler call and what it showed the caller
    page,         \* Kitchen or Orders view -> is it mounted, is its interval live
    mgmt          \* MenuManagement view -> its React state

vars == <<orders, orderItems, tables, menuItems, payments, nextOrderId, log,
          kOrders, oOrders, pos, take, published, created, sold, everStatus,
          lastOp, notifications, inbox, heardLen, alerts, attempt, page, mgmt>>

storeVars == <<orders, orderItems, tables, menuItems, payments>>

notifyVars == <<notifications, inbox, heardLen, alerts>>

Events == [type : {"order_created", "order_ready"}, orderId : OrderIds,
           targetRole : Roles]

NoCreate == [path |-> "none", ok |-> FALSE, lines |-> <<>>, tableId |-> NoTable,
             discount |-> 0, stockWritten |-> 0]

\* -------------------------------------------------------------- the store
\* db.getAll('tables') / db.getAll('menuItems'): the collection as stored.
getAllTables == tables
getAllMenuItems == menuItems

\* db.put('orders', order): the record replaces whatever is stored under its id.
updateOrder(store, order) == [store EXCEPT ![order.id] = order]

\* db.add('orders', order).
createOrder(store, order) == [store EXCEPT ![order.id] = order]

\* db.put('tables', table).
updateTable(store, id, table) == [store EXCEPT ![id] = table]

\* db.put('menuItems', item).
updateMenuItem(store, id, item) == [store EXCEPT ![id] = item]

\* db.delete('menuItems', id).
deleteMenuItem(store, id) == [store EXCEPT ![id] = NoItem]

\* ------------------------------------------------------------- the cart
\* A cart line is the MenuItem as the view had it loaded, plus a quantity.
CartIds(cart) == {cart[k].id : k \in 1..Len(cart)}

LineOf(cart, i) == CHOOSE k \in 1..Len(cart) : cart[k].id = i

RECURSIVE calculateSubtotal(_)
\* cart.reduce((total, item) => total + item.price * item.quantity, 0)
calculateSubtotal(cart) ==
    IF cart = <<>> THEN 0
    ELSE calculateSubtotal(SubSeq(cart, 1, Len(cart) - 1))
         + cart[Len(cart)].price * cart[Len(cart)].quantity

\* total * 0.16
calculateTax(cart) == (calculateSubtotal(cart) * TaxPercent) \div 100

\* total * 0.05
calculateServiceCharge(cart) == (calculateSubtotal(cart) * ServicePercent) \div 100

calculateTotal_Mut(cart, discount) ==
    calculateSubtotal(cart) + calculateTax(cart) + calculateServiceCharge(cart)

\* subtotal + tax + serviceCharge - discount
calculateTotal(cart, discount) ==
    calculateSubtotal(cart) + calculateTax(cart) + calculateServiceCharge(cart)
    - discount

\* cart after addToCart(item), item being the view's loaded copy of menu item i;
\* the cart is unchanged when the stock check refuses.
addToCart(cart, i, item) ==
    IF item.stock <= 0 THEN cart
    ELSE IF i \in CartIds(cart)
         THEN IF cart[LineOf(cart, i)].quantity >= item.stock THEN cart
              ELSE [cart EXCEPT ![LineOf(cart, i)].quantity = @ + 1]
         ELSE Append(cart, [id |-> i, price |-> item.price, stock |-> item.stock,
                            quantity |-> 1])

Max(a, b) == IF a >= b THEN a ELSE b

Min(a, b) == IF a <= b THEN a ELSE b

updateQuantity_Mut(cart, i, change) ==
    LET upd == [k \in 1..Len(cart) |->
                  IF cart[k].id = i
                  THEN [cart[k] EXCEPT !.quantity = Max(0, cart[k].quantity + change)]
                  ELSE cart[k]]
    IN SelectSeq(upd, LAMBDA l : l.quantity > 0)

\* cart after updateQuantity(itemId, change): checked against the stock in the
\* cart line, and lines of quantity 0 are dropped.
updateQuantity(cart, i, change) ==
    LET upd == [k \in 1..Len(cart) |->
                  IF cart[k].id = i
                  THEN LET newQuantity == Max(0, cart[k].quantity + change)
                       IN IF newQuantity > cart[k].stock THEN cart[k]
                          ELSE [cart[k] EXCEPT !.quantity = newQuantity]
                  ELSE cart[k]]
    IN SelectSeq(upd, LAMBDA l : l.quantity > 0)

\* cart.filter(item => item.id !== itemId)
removeFromCart(cart, i) == SelectSeq(cart, LAMBDA l : l.id # i)

RECURSIVE CartsWithin(_, _, _)
\* The carts that at most n calls of the cart handlers build from the empty
\* cart, in a view whose loaded menu is menu, over the menu items IS.
CartsWithin(menu, IS, n) ==
    IF n = 0 THEN {<<>>}
    ELSE LET prev == CartsWithin(menu, IS, n - 1)
         IN prev
            \cup {addToCart(c, i, menu[i]) : c \in prev, i \in IS}
            \cup {updateQuantity(c, i, d) : c \in prev, i \in IS, d \in {-1, 1}}
            \cup {removeFromCart(c, i) : c \in prev, i \in IS}

\* Every cart the handlers can build: InitStock calls per menu item reach them all.
Carts(menu, IS) == CartsWithin(menu, IS, Cardinality(IS) * InitStock)

\* The cart of one unit of menu item i (one addToCart on the empty cart).
UnitCart(menu, i) == {addToCart(<<>>, i, menu[i])} \ {<<>>}

\* --------------------------------------------------------- notifications
\* addNotification's write to localStorage: [new, ...existing.slice(0, 49)].
addNotification(existing, ev) ==
    <<ev>> \o SubSeq(existing, 1, Min(Len(existing), LogKeep))

\* playNotificationSound ran once more in view v for event ev, when sounds.
Sounded(al, v, ev, sounds) ==
    IF sounds THEN [al EXCEPT ![v][ev] = @ + 1] ELSE al

\* The effect of NotificationProvider, deps [user, notifications.length]: it
\* runs again after a render in which the length differs from the one it last
\* ran with, registers the listener anew and loads the log into the list.
EffectDue(v) == Len(notifications[v]) # heardLen[v]

\* The list of view v after one of its handlers has set it to newList while
\* the log becomes newLog: React runs a due effect before it renders the
\* handler's update, and the effect's load of the log is the last update.
Rendered(v, newList, newLog) == IF EffectDue(v) THEN newLog ELSE newList

\* The length the listener of view v is registered with after that.
Heard(v) == IF EffectDue(v) THEN Len(notifications[v]) ELSE heardLen[v]

\* addNotification(ev) called in view v: the event is prepended to the view's
\* list, the sound plays when the event targets the view's role, the log is
\* rewritten and every other open view is sent the storage event.  extraSound:
\* the caller runs playNotificationSound itself afterwards (completeOrder).
Publish(v, ev, extraSound) ==
    LET newLog == addNotification(log, ev)
    IN /\ log' = newLog
       /\ notifications' = [notifications EXCEPT
                              ![v] = Rendered(v, <<ev>> \o @, newLog)]
       /\ heardLen' = [heardLen EXCEPT ![v] = Heard(v)]
       /\ inbox' = [w \in Views |->
                      IF w = v THEN inbox[w] ELSE Append(inbox[w], newLog)]
       /\ alerts' = Sounded(Sounded(alerts, v, ev, ev.targetRole = Role[v]),
                            v, ev, extraSound)
       /\ published' = [published EXCEPT ![ev] = @ + 1]

NoPublish == UNCHANGED <<log, published, notifyVars>>

reloadEffect(v) ==
    /\ EffectDue(v)
    /\ heardLen' = [heardLen EXCEPT ![v] = Len(notifications[v])]
    /\ notifications' = [notifications EXCEPT ![v] = log]
    /\ UNCHANGED <<page, mgmt, storeVars, nextOrderId, log, kOrders, oOrders, pos, take,
                   published, created, sold, everStatus, lastOp, inbox, alerts,
                   attempt>>

\* handleStorageChange for the oldest storage event view v has not handled:
\* the list becomes the event's newValue; the sound plays when that is longer
\* than the length the listener was registered with and its first entry
\* targets the view's role.
handleStorageChange(v) ==
    /\ inbox[v] # <<>>
    /\ LET updatedNotifications == Head(inbox[v])
           sounds == /\ Len(updatedNotifications) > heardLen[v]
                     /\ updatedNotifications[1].targetRole = Role[v]
       IN /\ notifications' = [notifications EXCEPT
                                 ![v] = Rendered(v, updatedNotifications, log)]
          /\ alerts' = IF sounds
                       THEN Sounded(alerts, v, updatedNotifications[1], TRUE)
                       ELSE alerts
    /\ heardLen' = [heardLen EXCEPT ![v] = Heard(v)]
    /\ inbox' = [inbox EXCEPT ![v] = Tail(@)]
    /\ UNCHANGED <<page, mgmt, storeVars, nextOrderId, log, kOrders, oOrders, pos, take,
                   published, created, sold, everStatus, lastOp, attempt>>

\* clearNotifications in view v: the list and the log are emptied.
clearNotifications(v) ==
    /\ log # <<>> \/ notifications[v] # <<>>
    /\ notifications' = [notifications EXCEPT ![v] = <<>>]
    /\ heardLen' = [heardLen EXCEPT ![v] = Heard(v)]
    /\ log' = <<>>
    /\ inbox' = [w \in Views |->
                   IF w = v \/ log = <<>> THEN inbox[w] ELSE Append(inbox[w], <<>>)]
    /\ UNCHANGED <<page, mgmt, storeVars, nextOrderId, kOrders, oOrders, pos, take, published,
                   created, sold, everStatus, lastOp, alerts, attempt>>

\* ------------------------------------------------------------ histories
Seen(newOrders) ==
    everStatus' = [o \in OrderIds |->
                     IF newOrders[o] = NoOrder THEN everStatus[o]
                     ELSE everStatus[o] \cup {newOrders[o].status}]

Op(name, view, order, from, to) ==
    [op |-> name, view |-> view, order |-> order, from |-> from, to |-> to]

\* A handler call with its arguments, the store operation that threw (0: none)
\* and what it showed the caller: "success" (toast.success), "error"
\* (toast.error) or "silent" (a bare return).
Attempt(name, view, order, cart, tableId, failAt, result) ==
    [op |-> name, view |-> view, order |-> order, cart |-> cart,
     tableId |-> tableId, failAt |-> failAt, result |-> result]

Invalid_Mut(cart, selectedTable) == cart = <<>>

\* Both submit handlers start with: if (cart.length === 0) { toast.error; return }
\* if (!selectedTable) { toast.error; return }.
Invalid(cart, selectedTable) == cart = <<>> \/ selectedTable = NoTable

\* A handler that returns before its first store operation: nothing changes
\* but what the caller is shown.
Returned(name, view, order, cart, tableId, result) ==
    /\ attempt' = Attempt(name, view, order, cart, tableId, 0, result)
    /\ UNCHANGED <<page, mgmt, storeVars, nextOrderId, log, kOrders, oOrders, pos, take,
                   published, created, sold, everStatus, lastOp, notifyVars>>

\* ------------------------------------------------------ creating an order
ItemsOf_Mut(orderId, cart, n) ==
    {[orderId |-> orderId, menuItemId |-> cart[k].id, quantity |-> cart[k].quantity,
      price |-> cart[k].price, totalPrice |-> cart[k].price * cart[k].quantity]
        : k \in 1..(n - 1)}

\* The order items of the first n lines of a cart, as sendOrderToKitchen and
\* processOrder build them.
ItemsOf(orderId, cart, n) ==
    {[orderId |-> orderId, menuItemId |-> cart[k].id, quantity |-> cart[k].quantity,
      price |-> cart[k].price, totalPrice |-> cart[k].price * cart[k].quantity]
        : k \in 1..n}

NewOrder_Mut(orderId, tableId, waiter, cart, discount) ==
    [id |-> orderId, tableId |-> tableId, waiterId |-> waiter,
     status |-> "in-progress",
     total |-> calculateSubtotal(cart),
     discount |-> discount,
     tax |-> calculateTax(cart),
     serviceCharge |-> calculateServiceCharge(cart),
     finalTotal |-> calculateTotal(cart, discount),
     joined |-> FALSE]

\* The order record both create paths build.
NewOrder(orderId, tableId, waiter, cart, discount) ==
    [id |-> orderId, tableId |-> tableId, waiterId |-> waiter,
     status |-> "pending",
     total |-> calculateSubtotal(cart),
     discount |-> discount,
     tax |-> calculateTax(cart),
     serviceCharge |-> calculateServiceCharge(cart),
     finalTotal |-> calculateTotal(cart, discount),
     joined |-> FALSE]

\* ------------------------------------------------------------ TakeOrders
\* loadData on mount: menu and tables as stored.
TakeLoadData(t) ==
    /\ Role[t] \in AllowedRoles("take-orders")
    /\ take' = [take EXCEPT ![t] = [menuItems |-> getAllMenuItems,
                                    tables |-> getAllTables]]
    /\ take'[t] # take[t]
    /\ UNCHANGED <<page, mgmt, storeVars, nextOrderId, log, kOrders, oOrders, pos, published,
                   created, sold, everStatus, lastOp, notifyVars,
                   attempt>>

\* The table buttons: only a table the view shows as available can be picked.
TakeSelectable(tbls) == {tb \in Tables : tbls[tb] = "available"}

sendOrderToKitchen_Mut(t, cart, selectedTable, failAt) ==
    LET orderId == nextOrderId
        order == NewOrder(orderId, selectedTable, t, cart, 0)
        newOrders == createOrder(orders, order)
    IN /\ Role[t] \in AllowedRoles("take-orders")
       /\ ~Invalid(cart, selectedTable)
       /\ nextOrderId <= MaxOrders
       /\ failAt = 0
       /\ nextOrderId' = nextOrderId + 1
       /\ orders' = newOrders
       /\ Seen(newOrders)
       /\ orderItems' = orderItems \cup ItemsOf(orderId, cart, Len(cart))
       /\ tables' = updateTable(tables, selectedTable, "occupied")
       /\ menuItems' = [i \in Items |->
                          IF i \in CartIds(cart)
                          THEN [menuItems[i] EXCEPT
                                  !.stock = @ - cart[LineOf(cart, i)].quantity]
                          ELSE menuItems[i]]
       /\ Publish(t, [type |-> "order_created", orderId |-> orderId,
                      targetRole |-> "chef"], FALSE)
       /\ take' = [take EXCEPT ![t].tables[selectedTable] = "occupied"]
       /\ attempt' = Attempt("sendOrderToKitchen", t, orderId, cart, selectedTable,
                             0, "success")
       /\ created' = [created EXCEPT ![orderId] =
                        [path |-> "take", ok |-> TRUE, lines |-> cart,
                         tableId |-> selectedTable, discount |-> 0,
                         stockWritten |-> 0]]
       /\ lastOp' = Op("sendOrderToKitchen", t, orderId, "", "")
       /\ UNCHANGED <<page, mgmt, payments, kOrders, oOrders, pos, sold>>

\* sendOrderToKitchen.  Its store operations, in order: 1 createOrder,
\* 2..n+1 createOrderItem per cart line, n+2 updateTable.  failAt = 0: none of
\* them throws; failAt = k: operation k throws and the catch block ends the
\* handler, the earlier writes staying.
sendOrderToKitchen(t, cart, selectedTable, failAt) ==
    IF Invalid(cart, selectedTable)
    THEN /\ Role[t] \in AllowedRoles("take-orders")
         /\ failAt = 0
         /\ Returned("sendOrderToKitchen", t, 0, cart, selectedTable, "error")
    ELSE
    LET n == Len(cart)
        orderId == nextOrderId
        ok == failAt = 0
        order == NewOrder(orderId, selectedTable, t, cart, 0)
        written == IF ok THEN n ELSE Min(n, Max(0, failAt - 2))
        newOrders == IF failAt = 1 THEN orders ELSE createOrder(orders, order)
    IN /\ Role[t] \in AllowedRoles("take-orders")
       /\ nextOrderId <= MaxOrders
       /\ failAt \in 0..(n + 2)
       /\ nextOrderId' = nextOrderId + 1
       /\ orders' = newOrders
       /\ Seen(newOrders)
       /\ orderItems' = IF failAt = 1 THEN orderItems
                        ELSE orderItems \cup ItemsOf(orderId, cart, written)
       /\ tables' = IF ok THEN updateTable(tables, selectedTable, "occupied")
                    ELSE tables
       /\ IF ok
          THEN /\ Publish(t, [type |-> "order_created", orderId |-> orderId,
                              targetRole |-> "chef"], FALSE)
               /\ take' = [take EXCEPT ![t].tables[selectedTable] = "occupied"]
          ELSE NoPublish /\ UNCHANGED take
       /\ attempt' = Attempt("sendOrderToKitchen", t, orderId, cart, selectedTable,
                             failAt, IF ok THEN "success" ELSE "error")
       /\ created' = [created EXCEPT ![orderId] =
                        [path |-> "take", ok |-> ok, lines |-> cart,
                         tableId |-> selectedTable, discount |-> 0,
                         stockWritten |-> 0]]
       /\ lastOp' = Op("sendOrderToKitchen", t, orderId, "", "")
       /\ UNCHANGED <<page, mgmt, menuItems, payments, kOrders, oOrders, pos, sold>>

\* ------------------------------------------------------------- POSSystem
\* The tables a POSSystem view lists: those stored as available when it loaded.
AvailableTables(tbls) == {tb \in Tables : tbls[tb] = "available"}

\* loadData on mount: menu and available tables as stored.
PosLoadData(p) ==
    /\ Role[p] \in AllowedRoles("pos")
    /\ pos' = [pos EXCEPT ![p] = [menuItems |-> getAllMenuItems,
                                  tables |-> AvailableTables(getAllTables)]]
    /\ pos'[p] # pos[p]
    /\ UNCHANGED <<page, mgmt, storeVars, nextOrderId, log, kOrders, oOrders, take, published,
                   created, sold, everStatus, lastOp, notifyVars,
                   attempt>>

\* setDiscount(Math.max(0, parseFloat(value) || 0))
setDiscount(d) == Max(0, d)

StockUpdate_Mut(line) == [price |-> line.price, stock |-> line.stock - 1]

\* The record processOrder puts for a cart line: the line with its stock lowered.
StockUpdate(line) == [price |-> line.price, stock |-> line.stock - line.quantity]

RECURSIVE DeductStock(_, _, _)
\* menuItems after the updateMenuItem calls of the first m cart lines.
DeductStock(store, cart, m) ==
    IF m = 0 THEN store
    ELSE updateMenuItem(DeductStock(store, cart, m - 1), cart[m].id,
                        StockUpdate(cart[m]))

\* Quantity the first m cart lines deduct from menu item i.
Deducted(cart, m, i) ==
    IF \E k \in 1..m : cart[k].id = i THEN cart[LineOf(cart, i)].quantity ELSE 0

\* processOrder.  Its store operations, in order: 1 createOrder; for cart line k,
\* 2k createOrderItem and 2k+1 updateMenuItem; 2n+2 createPayment.  failAt as in
\* sendOrderToKitchen.  After a success the handler ends in loadData.
processOrder(p, cart, selectedTable, discount, failAt) ==
    IF Invalid(cart, selectedTable)
    THEN /\ Role[p] \in AllowedRoles("pos")
         /\ failAt = 0
         /\ Returned("processOrder", p, 0, cart, selectedTable, "error")
    ELSE
    LET n == Len(cart)
        orderId == nextOrderId
        ok == failAt = 0
        order == NewOrder(orderId, selectedTable, p, cart, discount)
        itemsWritten == IF ok THEN n ELSE Min(n, (failAt - 1) \div 2)
        stockWritten == IF ok THEN n ELSE Min(n, Max(0, failAt - 2) \div 2)
        newOrders == IF failAt = 1 THEN orders ELSE createOrder(orders, order)
        newMenu == DeductStock(menuItems, cart, stockWritten)
    IN /\ Role[p] \in AllowedRoles("pos")
       /\ nextOrderId <= MaxOrders
       /\ failAt \in 0..(2 * n + 2)
       /\ nextOrderId' = nextOrderId + 1
       /\ orders' = newOrders
       /\ Seen(newOrders)
       /\ orderItems' = orderItems \cup ItemsOf(orderId, cart, itemsWritten)
       /\ menuItems' = newMenu
       /\ sold' = [i \in Items |-> sold[i] + Deducted(cart, stockWritten, i)]
       /\ payments' = IF ok
                      THEN payments \cup {[orderId |-> orderId,
                                           amount |-> order.finalTotal]}
                      ELSE payments
       /\ IF ok
          THEN /\ Publish(p, [type |-> "order_created", orderId |-> orderId,
                              targetRole |-> "chef"], FALSE)
               /\ pos' = [pos EXCEPT ![p] =
                            [menuItems |-> newMenu,
                             tables |-> AvailableTables(getAllTables)]]
          ELSE NoPublish /\ UNCHANGED pos
       /\ attempt' = Attempt("processOrder", p, orderId, cart, selectedTable,
                             failAt, IF ok THEN "success" ELSE "error")
       /\ created' = [created EXCEPT ![orderId] =
                        [path |-> "pos", ok |-> ok, lines |-> cart,
                         tableId |-> selectedTable, discount |-> discount,
                         stockWritten |-> stockWritten]]
       /\ lastOp' = Op("processOrder", p, orderId, "", "")
       /\ UNCHANGED <<page, mgmt, tables, kOrders, oOrders, take>>

\* --------------------------------------------------------------- Kitchen
\* OrderWithDetails: the order joined with its items and its table.
Joined(order) == [order EXCEPT !.joined = TRUE]

\* loadOrders of the Kitchen page: the pending and in-progress orders, joined.
KitchenList(store) ==
    [o \in OrderIds |->
        IF store[o] # NoOrder /\ store[o].status \in {"pending", "in-progress"}
        THEN Joined(store[o]) ELSE NoOrder]

\* The Kitchen polling tick (setInterval(loadOrders, 5000)), while the
\* interval is live.
KitchenLoadOrders(k) ==
    /\ Role[k] \in AllowedRoles("kitchen")
    /\ page[k].interval
    /\ kOrders' = [kOrders EXCEPT ![k] = KitchenList(orders)]
    /\ kOrders'[k] # kOrders[k]
    /\ UNCHANGED <<page, mgmt, storeVars, nextOrderId, log, oOrders, pos, take, published,
                   created, sold, everStatus, lastOp, notifyVars,
                   attempt>>

\* "Start Cooking" is rendered for an order the view shows as pending.
ShowsStartCooking(copy) == copy # NoOrder /\ copy.status = "pending"

ShowsMarkReady_Mut(copy) == copy # NoOrder

\* "Mark Ready" is rendered for an order the view shows as in-progress.
ShowsMarkReady(copy) == copy # NoOrder /\ copy.status = "in-progress"

\* startOrder: orders.find in the view's list; if (!order) return.
startOrder(k, o) ==
    IF kOrders[k][o] = NoOrder
    THEN /\ Role[k] \in AllowedRoles("kitchen")
         /\ page[k].mounted
         /\ Returned("startOrder", k, o, <<>>, NoTable, "silent")
    ELSE
    LET copy == kOrders[k][o]
        newOrders == updateOrder(orders, [copy EXCEPT !.status = "in-progress"])
    IN /\ Role[k] \in AllowedRoles("kitchen")
       /\ page[k].mounted
       /\ ShowsStartCooking(copy)
       /\ orders' = newOrders
       /\ Seen(newOrders)
       /\ kOrders' = [kOrders EXCEPT ![k] = KitchenList(newOrders)]
       /\ lastOp' = Op("startOrder", k, o, orders[o].status, "in-progress")
       /\ attempt' = Attempt("startOrder", k, o, <<>>, NoTable, 0, "success")
       /\ NoPublish
       /\ UNCHANGED <<page, mgmt, orderItems, tables, menuItems, payments, nextOrderId, oOrders,
                      pos, take, created, sold>>

\* completeOrder: as startOrder, then addNotification and playNotificationSound.
completeOrder(k, o) ==
    IF kOrders[k][o] = NoOrder
    THEN /\ Role[k] \in AllowedRoles("kitchen")
         /\ page[k].mounted
         /\ Returned("completeOrder", k, o, <<>>, NoTable, "silent")
    ELSE
    LET copy == kOrders[k][o]
        newOrders == updateOrder(orders, [copy EXCEPT !.status = "ready"])
    IN /\ Role[k] \in AllowedRoles("kitchen")
       /\ page[k].mounted
       /\ ShowsMarkReady(copy)
       /\ orders' = newOrders
       /\ Seen(newOrders)
       /\ Publish(k, [type |-> "order_ready", orderId |-> o,
                       targetRole |-> "cashier"], TRUE)
       /\ attempt' = Attempt("completeOrder", k, o, <<>>, NoTable, 0, "success")
       /\ kOrders' = [kOrders EXCEPT ![k] = KitchenList(newOrders)]
       /\ lastOp' = Op("completeOrder", k, o, orders[o].status, "ready")
       /\ UNCHANGED <<page, mgmt, orderItems, tables, menuItems, payments, nextOrderId, oOrders,
                      pos, take, created, sold>>

\* Kitchen mounts: the effect runs loadOrders once and starts the interval.
KitchenMount(k) ==
    /\ Role[k] \in AllowedRoles("kitchen")
    /\ ~page[k].mounted
    /\ page' = [page EXCEPT ![k] = [mounted |-> TRUE, interval |-> TRUE]]
    /\ kOrders' = [kOrders EXCEPT ![k] = KitchenList(orders)]
    /\ UNCHANGED <<mgmt, storeVars, nextOrderId, log, oOrders, pos, take, published,
                   created, sold, everStatus, lastOp, notifyVars, attempt>>

KitchenUnmount_Mut(k) ==
    /\ page[k].mounted
    /\ page' = [page EXCEPT ![k].mounted = FALSE]
    /\ kOrders' = [kOrders EXCEPT ![k] = [o \in OrderIds |-> NoOrder]]
    /\ UNCHANGED <<mgmt, storeVars, nextOrderId, log, oOrders, pos, take, published,
                   created, sold, everStatus, lastOp, notifyVars, attempt>>

\* Kitchen is torn down: the effect's cleanup runs clearInterval(interval), and
\* the component's state is gone.
KitchenUnmount(k) ==
    /\ page[k].mounted
    /\ page' = [page EXCEPT ![k] = [mounted |-> FALSE, interval |-> FALSE]]
    /\ kOrders' = [kOrders EXCEPT ![k] = [o \in OrderIds |-> NoOrder]]
    /\ UNCHANGED <<mgmt, storeVars, nextOrderId, log, oOrders, pos, take, published,
                   created, sold, everStatus, lastOp, notifyVars, attempt>>

\* ---------------------------------------------------------------- Orders
OrdersList_Mut(store) ==
    [o \in OrderIds |->
        IF store[o] # NoOrder /\ store[o].status # "ready"
        THEN Joined(store[o]) ELSE NoOrder]

\* loadOrders of the Orders page: every order, joined.
OrdersList(store) ==
    [o \in OrderIds |-> IF store[o] # NoOrder THEN Joined(store[o]) ELSE NoOrder]

\* The Orders polling tick (setInterval(loadOrders, 10000)), while the
\* interval is live.
OrdersLoadOrders(v) ==
    /\ page[v].interval
    /\ oOrders' = [oOrders EXCEPT ![v] = OrdersList(orders)]
    /\ oOrders'[v] # oOrders[v]
    /\ UNCHANGED <<page, mgmt, storeVars, nextOrderId, log, kOrders, pos, take, published,
                   created, sold, everStatus, lastOp, notifyVars,
                   attempt>>

canUpdateStatus_Mut(role, copy) == role = "cashier" /\ copy.status = "ready"

\* user.role === 'admin' || (user.role === 'cashier' && status === 'ready')
canUpdateStatus(role, copy) ==
    \/ role = "admin"
    \/ role = "cashier" /\ copy.status = "ready"

ShowsMarkServed_Mut(role, copy) ==
    /\ copy # NoOrder /\ role \in {"admin", "cashier"} /\ copy.status = "ready"
    /\ \E k \in 1..Len(log) : log[k].type = "order_ready" /\ log[k].orderId = copy.id

\* "Mark as Served" is rendered when canUpdateStatus(order) && status === 'ready'.
ShowsMarkServed(role, copy) ==
    copy # NoOrder /\ canUpdateStatus(role, copy) /\ copy.status = "ready"

updateOrderStatus_Mut(v, o, status) ==
    IF oOrders[v][o] = NoOrder
    THEN /\ page[v].mounted
         /\ Returned("updateOrderStatus", v, o, <<>>, NoTable, "silent")
    ELSE
    LET copy == oOrders[v][o]
        newOrders == updateOrder(orders, [copy EXCEPT !.status = status])
    IN /\ page[v].mounted
       /\ ShowsMarkServed(Role[v], copy)
       /\ orders' = newOrders
       /\ Seen(newOrders)
       /\ tables' = updateTable(tables, copy.tableId, "available")
       /\ oOrders' = [oOrders EXCEPT ![v] = OrdersList(newOrders)]
       /\ lastOp' = Op("updateOrderStatus", v, o, orders[o].status, status)
       /\ attempt' = Attempt("updateOrderStatus", v, o, <<>>, NoTable, 0, "success")
       /\ NoPublish
       /\ UNCHANGED <<page, mgmt, orderItems, menuItems, payments, nextOrderId,
                      kOrders, pos, take, created, sold>>

\* updateOrderStatus(order.id, 'served'), the only call the page makes.
updateOrderStatus(v, o, status) ==
    IF oOrders[v][o] = NoOrder
    THEN /\ page[v].mounted
         /\ Returned("updateOrderStatus", v, o, <<>>, NoTable, "silent")
    ELSE
    LET copy == oOrders[v][o]
        newOrders == updateOrder(orders, [copy EXCEPT !.status = status])
    IN /\ page[v].mounted
       /\ ShowsMarkServed(Role[v], copy)
       /\ orders' = newOrders
       /\ Seen(newOrders)
       /\ oOrders' = [oOrders EXCEPT ![v] = OrdersList(newOrders)]
       /\ lastOp' = Op("updateOrderStatus", v, o, orders[o].status, status)
       /\ attempt' = Attempt("updateOrderStatus", v, o, <<>>, NoTable, 0, "success")
       /\ NoPublish
       /\ UNCHANGED <<page, mgmt, orderItems, tables, menuItems, payments, nextOrderId, kOrders,
                      pos, take, created, sold>>

\* Orders mounts: the effect runs loadOrders once and starts the interval.
OrdersMount(v) ==
    /\ ~page[v].mounted
    /\ page' = [page EXCEPT ![v] = [mounted |-> TRUE, interval |-> TRUE]]
    /\ oOrders' = [oOrders EXCEPT ![v] = OrdersList(orders)]
    /\ UNCHANGED <<mgmt, storeVars, nextOrderId, log, kOrders, pos, take, published,
                   created, sold, everStatus, lastOp, notifyVars, attempt>>

\* Orders is torn down: the effect's cleanup runs clearInterval(interval), and
\* the component's state is gone.
OrdersUnmount(v) ==
    /\ page[v].mounted
    /\ page' = [page EXCEPT ![v] = [mounted |-> FALSE, interval |-> FALSE]]
    /\ oOrders' = [oOrders EXCEPT ![v] = [o \in OrderIds |-> NoOrder]]
    /\ UNCHANGED <<mgmt, storeVars, nextOrderId, log, kOrders, pos, take, published,
                   created, sold, everStatus, lastOp, notifyVars, attempt>>

\* -------------------------------------------------------- MenuManagement
\* loadData on mount: the menu as stored.
MenuLoadData(m) ==
    /\ Role[m] \in AllowedRoles("menu")
    /\ mgmt' = [mgmt EXCEPT ![m].menuItems = getAllMenuItems]
    /\ mgmt'[m] # mgmt[m]
    /\ UNCHANGED <<page, storeVars, nextOrderId, log, kOrders, oOrders, pos, take,
                   published, created, sold, everStatus, lastOp, notifyVars,
                   attempt>>

\* The items the page lists, each with its edit and delete buttons.
Listed(menu) == {i \in Items : menu[i] # NoItem}

\* handleSaveMenuItem for a listed item: handleEditItem copied the item as the
\* view holds it into the form, the price was edited, and the form is put;
\* then loadData.  (The form of a new item gets a fresh id: not modelled.)
handleSaveMenuItem(m, i, price) ==
    LET editingItem == [mgmt[m].menuItems[i] EXCEPT !.price = price]
        newMenu == updateMenuItem(menuItems, i, editingItem)
    IN /\ Role[m] \in AllowedRoles("menu")
       /\ i \in Listed(mgmt[m].menuItems)
       /\ editingItem.price > 0
       /\ menuItems' = newMenu
       /\ mgmt' = [mgmt EXCEPT ![m].menuItems = newMenu]
       /\ lastOp' = Op("handleSaveMenuItem", m, 0, "", "")
       /\ attempt' = Attempt("handleSaveMenuItem", m, 0, <<>>, NoTable, 0, "success")
       /\ UNCHANGED <<page, orders, orderItems, tables, payments, nextOrderId, log,
                      kOrders, oOrders, pos, take, published, created, sold,
                      everStatus, notifyVars>>

\* handleDeleteItem for a listed item, confirmed: deleteMenuItem, then loadData.
handleDeleteItem(m, i) ==
    LET newMenu == deleteMenuItem(menuItems, i)
    IN /\ Role[m] \in AllowedRoles("menu")
       /\ i \in Listed(mgmt[m].menuItems)
       /\ menuItems' = newMenu
       /\ mgmt' = [mgmt EXCEPT ![m].menuItems = newMenu]
       /\ lastOp' = Op("handleDeleteItem", m, 0, "", "")
       /\ attempt' = Attempt("handleDeleteItem", m, 0, <<>>, NoTable, 0, "success")
       /\ UNCHANGED <<page, orders, orderItems, tables, payments, nextOrderId, log,
                      kOrders, oOrders, pos, take, published, created, sold,
                      everStatus, notifyVars>>

\* ------------------------------------------------------------------ Init
\* An entry of the log left by an earlier session, about an order that is no
\* longer active.
OldEvent == [type |-> "order_ready", orderId |-> 0, targetRole |-> "cashier"]

OldLog(n) == [k \in 1..n |-> OldEvent]

\* The seeded store, every view mounted and loaded (the providers having
\* loaded the log oldLog that localStorage holds), nothing published since.
InitWith(oldLog) ==
    /\ orders = [o \in OrderIds |-> NoOrder]
    /\ orderItems = {}
    /\ tables = [tb \in Tables |-> "available"]
    /\ menuItems = [i \in Items |-> [price |-> Price[i], stock |-> InitStock]]
    /\ payments = {}
    /\ nextOrderId = 1
    /\ log = oldLog
    /\ notifications = [v \in Views |-> oldLog]
    /\ inbox = [v \in Views |-> <<>>]
    /\ heardLen = [v \in Views |-> Len(oldLog)]
    /\ alerts = [v \in Views |-> [e \in Events |-> 0]]
    /\ attempt = Attempt("init", "", 0, <<>>, NoTable, 0, "")
    /\ kOrders = [k \in KViews |-> [o \in OrderIds |-> NoOrder]]
    /\ oOrders = [v \in OViews |-> [o \in OrderIds |-> NoOrder]]
    /\ pos = [p \in PViews |->
                [menuItems |-> [i \in Items |-> [price |-> Price[i], stock |-> InitStock]],
                 tables |-> Tables]]
    /\ take = [t \in TViews |->
                [menuItems |-> [i \in Items |-> [price |-> Price[i], stock |-> InitStock]],
                 tables |-> [tb \in Tables |-> "available"]]]
    /\ published = [e \in Events |-> 0]
    /\ created = [o \in OrderIds |-> NoCreate]
    /\ sold = [i \in Items |-> 0]
    /\ everStatus = [o \in OrderIds |-> {}]
    /\ lastOp = Op("init", "", 0, "", "")
    /\ page = [v \in KViews \cup OViews |-> [mounted |-> TRUE, interval |-> TRUE]]
    /\ mgmt = [m \in MViews |->
                 [menuItems |-> [i \in Items |-> [price |-> Price[i], stock |-> InitStock]]]]

\* A first session: the log is empty.
Init == InitWith(<<>>)

FailPoints == 0..(2 * Cardinality(Items) + 2)

\* The orders a list view renders (the buttons it can offer).
Shown(list) == {o \in OrderIds : list[o] # NoOrder}

\* Every view open, every input.
Next ==
    \/ \E t \in TViews : TakeLoadData(t)
    \/ \E t \in TViews :
         \E cart \in Carts(take[t].menuItems, Items),
            tb \in TakeSelectable(take[t].tables) \cup {NoTable}, f \in FailPoints :
             sendOrderToKitchen(t, cart, tb, f)
    \/ \E p \in PViews : PosLoadData(p)
    \/ \E p \in PViews :
         \E cart \in Carts(pos[p].menuItems, Items),
            tb \in pos[p].tables \cup {NoTable}, d \in Discounts, f \in FailPoints :
             processOrder(p, cart, tb, setDiscount(d), f)
    \/ \E k \in KViews : KitchenLoadOrders(k)
    \/ \E k \in KViews, o \in OrderIds : startOrder(k, o)
    \/ \E k \in KViews, o \in OrderIds : completeOrder(k, o)
    \/ \E v \in OViews : OrdersLoadOrders(v)
    \/ \E v \in OViews, o \in OrderIds : updateOrderStatus(v, o, "served")
    \/ \E v \in Views : reloadEffect(v)
    \/ \E v \in Views : handleStorageChange(v)
    \/ \E v \in Views : clearNotifications(v)
    \/ \E k \in KViews : KitchenMount(k)
    \/ \E k \in KViews : KitchenUnmount(k)
    \/ \E v \in OViews : OrdersMount(v)
    \/ \E v \in OViews : OrdersUnmount(v)
    \/ \E m \in MViews : MenuLoadData(m)
    \/ \E m \in MViews, i \in Items, price \in MenuPrices :
         handleSaveMenuItem(m, i, price)
    \/ \E m \in MViews, i \in Items : handleDeleteItem(m, i)

Spec == Init /\ [][Next]_vars

\* The two order-creation pages: the TakeOrders view and one POSSystem view
\* open, any cart (the empty one too), any table or none, any discount and
\* failure, CreateCap creates.
NextCreate ==
    \/ \E t \in TViews : TakeLoadData(t)
    \/ \E t \in TViews :
         \E cart \in Carts(take[t].menuItems, Items),
            tb \in TakeSelectable(take[t].tables) \cup {NoTable}, f \in FailPoints :
             nextOrderId <= CreateCap /\ sendOrderToKitchen(t, cart, tb, f)
    \/ \E p \in {"p1"} : PosLoadData(p)
    \/ \E p \in {"p1"} :
         \E cart \in Carts(pos[p].menuItems, Items),
            tb \in pos[p].tables \cup {NoTable}, d \in Discounts, f \in FailPoints :
             nextOrderId <= CreateCap /\ processOrder(p, cart, tb, setDiscount(d), f)

SpecCreate == Init /\ [][NextCreate]_vars

\* The immediate-sale path: the POSSystem views selling menu item A side by
\* side at table T1, without discount.
NextSales ==
    \/ \E p \in PViews : PosLoadData(p)
    \/ \E p \in PViews :
         \E cart \in Carts(pos[p].menuItems, {"A"}) \ {<<>>},
            tb \in pos[p].tables \cap {"T1"},
            f \in FailPoints :
             processOrder(p, cart, tb, 0, f)

SpecSales == Init /\ [][NextSales]_vars

\* The order lifecycle: orders of one unit of A sent from the TakeOrders view
\* or sold at a POSSystem view (LifecycleCap of them), the two Kitchen views
\* and the cashier's Orders view polling and acting on what they show.
NextLifecycle ==
    \/ \E t \in TViews :
         \E cart \in UnitCart(take[t].menuItems, "A"),
            tb \in TakeSelectable(take[t].tables) :
             nextOrderId <= LifecycleCap /\ sendOrderToKitchen(t, cart, tb, 0)
    \/ \E p \in {"p1"} :
         \E cart \in UnitCart(pos[p].menuItems, "A"), tb \in pos[p].tables :
             nextOrderId <= LifecycleCap /\ processOrder(p, cart, tb, 0, 0)
    \/ \E k \in KViews : KitchenLoadOrders(k)
    \/ \E k \in KViews : \E o \in Shown(kOrders[k]) : startOrder(k, o)
    \/ \E k \in KViews : \E o \in Shown(kOrders[k]) : completeOrder(k, o)
    \/ \E v \in {"o1"} : OrdersLoadOrders(v)
    \/ \E v \in {"o1"} :
         \E o \in Shown(oOrders[v]) : updateOrderStatus(v, o, "served")

SpecLifecycle == Init /\ [][NextLifecycle]_vars

\* Tables: the TakeOrders view and the two POSSystem views each submitting
\* one unit of a menu item on a table they show as available.
NextTables ==
    \/ \E t \in TViews : TakeLoadData(t)
    \/ \E t \in TViews, i \in Items :
         \E cart \in UnitCart(take[t].menuItems, i),
            tb \in TakeSelectable(take[t].tables) :
             sendOrderToKitchen(t, cart, tb, 0)
    \/ \E p \in PViews : PosLoadData(p)
    \/ \E p \in PViews, i \in Items :
         \E cart \in UnitCart(pos[p].menuItems, i), tb \in pos[p].tables :
             processOrder(p, cart, tb, 0, 0)

SpecTables == Init /\ [][NextTables]_vars

NextHandlers_Mut ==
    \/ \E t \in TViews :
         \E cart \in UnitCart(take[t].menuItems, "A"),
            tb \in TakeSelectable(take[t].tables) :
             nextOrderId <= HandlersCap /\ sendOrderToKitchen(t, cart, tb, 0)
    \/ \E k \in KViews : KitchenLoadOrders(k)
    \/ \E k \in KViews, o \in OrderIds : startOrder(k, o)
    \/ \E k \in KViews, o \in OrderIds : completeOrder(k, o)
    \/ \E v \in {"o3"} : OrdersLoadOrders(v)
    \/ \E v \in {"o3"}, o \in OrderIds, st \in {"served", "cancelled"} :
         updateOrderStatus(v, o, st)

\* The status handlers called with any order id, known to the view or not:
\* one order sent from the TakeOrders view, the chef's and the admin's Kitchen
\* views and the admin's Orders view.
NextHandlers ==
    \/ \E t \in TViews :
         \E cart \in UnitCart(take[t].menuItems, "A"),
            tb \in TakeSelectable(take[t].tables) :
             nextOrderId <= HandlersCap /\ sendOrderToKitchen(t, cart, tb, 0)
    \/ \E k \in KViews : KitchenLoadOrders(k)
    \/ \E k \in KViews, o \in OrderIds : startOrder(k, o)
    \/ \E k \in KViews, o \in OrderIds : completeOrder(k, o)
    \/ \E v \in {"o3"} : OrdersLoadOrders(v)
    \/ \E v \in {"o3"}, o \in OrderIds : updateOrderStatus(v, o, "served")

SpecHandlers == Init /\ [][NextHandlers]_vars

\* Notifications: the log starts empty, one short of full, or full; an order
\* is sent from the TakeOrders view and taken through the chef's Kitchen view;
\* the providers of those two views and of the cashier's POSSystem view
\* handle their storage events and run their reload effects.
LogFill == {0, LogKeep, LogKeep + 1}

ListenViews == {"t1", "k1", "p1"}

InitNotify == \E n \in LogFill : InitWith(OldLog(n))

NextNotify ==
    \/ \E t \in TViews :
         \E cart \in UnitCart(take[t].menuItems, "A"),
            tb \in TakeSelectable(take[t].tables) :
             nextOrderId <= NotifyCap /\ sendOrderToKitchen(t, cart, tb, 0)
    \/ \E k \in {"k1"} : KitchenLoadOrders(k)
    \/ \E k \in {"k1"} : \E o \in Shown(kOrders[k]) : startOrder(k, o)
    \/ \E k \in {"k1"} : \E o \in Shown(kOrders[k]) : completeOrder(k, o)
    \/ \E v \in ListenViews : reloadEffect(v)
    \/ \E v \in ListenViews : handleStorageChange(v)

SpecNotify == InitNotify /\ [][NextNotify]_vars

\* The same with clearNotifications, which the provider offers to its views,
\* called in the cashier's view while the log holds entries; the chef's and
\* the cashier's providers listening, and the cashier's Orders view serving.
NextNotifyClear ==
    \/ \E t \in TViews :
         \E cart \in UnitCart(take[t].menuItems, "A"),
            tb \in TakeSelectable(take[t].tables) :
             nextOrderId <= NotifyCap /\ sendOrderToKitchen(t, cart, tb, 0)
    \/ \E k \in {"k1"} : KitchenLoadOrders(k)
    \/ \E k \in {"k1"} : \E o \in Shown(kOrders[k]) : startOrder(k, o)
    \/ \E k \in {"k1"} : \E o \in Shown(kOrders[k]) : completeOrder(k, o)
    \/ \E v \in {"o1"} : OrdersLoadOrders(v)
    \/ \E v \in {"o1"} :
         \E o \in Shown(oOrders[v]) : updateOrderStatus(v, o, "served")
    \/ \E v \in {"k1", "p1"} : reloadEffect(v)
    \/ \E v \in {"k1", "p1"} : handleStorageChange(v)
    \/ \E v \in {"p1"} : log # <<>> /\ clearNotifications(v)

SpecNotifyClear == InitNotify /\ [][NextNotifyClear]_vars

\* The menu under sale: the admin's MenuManagement view edits prices and
\* deletes items while the TakeOrders view and the cashier's POSSystem view
\* submit single-line carts of what they have loaded, any store operation of
\* theirs failing or none.
NextMenu ==
    \/ \E t \in TViews : TakeLoadData(t)
    \/ \E t \in TViews, i \in Items :
         \E cart \in UnitCart(take[t].menuItems, i),
            tb \in TakeSelectable(take[t].tables) \cap {"T1"}, f \in FailPoints :
             nextOrderId <= MenuCap /\ sendOrderToKitchen(t, cart, tb, f)
    \/ \E p \in {"p1"} : PosLoadData(p)
    \/ \E p \in {"p1"}, i \in Items :
         \E cart \in UnitCart(pos[p].menuItems, i),
            tb \in pos[p].tables \cap {"T1"}, f \in FailPoints :
             nextOrderId <= MenuCap /\ processOrder(p, cart, tb, 0, f)
    \/ \E m \in MViews : MenuLoadData(m)
    \/ \E m \in MViews, i \in Items, price \in MenuPrices :
         handleSaveMenuItem(m, i, price)
    \/ \E m \in MViews, i \in Items : handleDeleteItem(m, i)

SpecMenu == Init /\ [][NextMenu]_vars

\* Polling: an order sent from the TakeOrders view; the chef's Kitchen view and
\* the cashier's Orders view are mounted and torn down, and they and the
\* admin's Kitchen view poll while their interval is live and act on what
\* they show.
NextPolling ==
    \/ \E t \in TViews :
         \E cart \in UnitCart(take[t].menuItems, "A"),
            tb \in TakeSelectable(take[t].tables) :
             nextOrderId <= PollCap /\ sendOrderToKitchen(t, cart, tb, 0)
    \/ \E k \in {"k1"} : KitchenMount(k)
    \/ \E k \in {"k1"} : KitchenUnmount(k)
    \/ \E k \in KViews : KitchenLoadOrders(k)
    \/ \E k \in KViews : \E o \in Shown(kOrders[k]) : startOrder(k, o)
    \/ \E k \in KViews : \E o \in Shown(kOrders[k]) : completeOrder(k, o)
    \/ \E v \in {"o1"} : OrdersMount(v)
    \/ \E v \in {"o1"} : OrdersUnmount(v)
    \/ \E v \in {"o1"} : OrdersLoadOrders(v)
    \/ \E v \in {"o1"} :
         \E o \in Shown(oOrders[v]) : updateOrderStatus(v, o, "served")

SpecPolling == Init /\ [][NextPolling]_vars

\* setInterval keeps firing while the interval is live: the tick of a view
\* whose list differs from what a reload would show is not postponed for ever.
FairPolling ==
    /\ SpecPolling
    /\ \A k \in KViews : WF_vars(KitchenLoadOrders(k))
    /\ WF_vars(OrdersLoadOrders("o1"))

\* The event loop of every listening view keeps running: a pending storage
\* event is dispatched and a due effect is run.
FairNotify ==
    /\ SpecNotify
    /\ \A v \in ListenViews : WF_vars(reloadEffect(v))
    /\ \A v \in ListenViews : WF_vars(handleStorageChange(v))
\* ======================================================= the status claims
\* The state machine of the order status: pending -> in-progress -> ready ->
\* served, and any non-terminal status -> cancelled.
Edge(from, to) ==
    \/ from = "pending" /\ to = "in-progress"
    \/ from = "in-progress" /\ to = "ready"
    \/ from = "ready" /\ to = "served"
    \/ from \in {"pending", "in-progress", "ready"} /\ to = "cancelled"

StatusOps == {"startOrder", "completeOrder", "updateOrderStatus"}

\* C1: in every step, whichever views act on their last-polled copies, a stored
\* order's status changes only along an edge of the state machine (it never
\* moves backward).
C1_StatusOnlyAdvances ==
    [][\A o \in OrderIds :
         (orders[o] # NoOrder /\ orders'[o].status # orders[o].status)
             => Edge(orders[o].status, orders'[o].status)]_vars

\* C2: a status change requested for an order whose stored status is served or
\* cancelled fails and leaves the stored order unchanged: no step changes the
\* stored record of such an order, and no status operation goes through on it.
C2_TerminalOrderUnchanged ==
    [][\A o \in OrderIds :
         orders[o].status \in {"served", "cancelled"}
             => /\ orders'[o] = orders[o]
                /\ ~(lastOp' # lastOp /\ lastOp'.op \in StatusOps
                     /\ lastOp'.order = o)]_vars

\* C3: every status change that reaches the store (a write that stores another
\* status than the store held) was issued by a role allowed that edge: never by
\* a waiter, by a cashier only ready -> served, by a chef only
\* pending -> in-progress and in-progress -> ready.
C3_RoleAllowedEdge ==
    (lastOp.op \in StatusOps /\ lastOp.from # lastOp.to) =>
        LET r == Role[lastOp.view]
        IN /\ r # "waiter"
           /\ r = "cashier" => (lastOp.from = "ready" /\ lastOp.to = "served")
           /\ r = "chef" => \/ lastOp.from = "pending" /\ lastOp.to = "in-progress"
                            \/ lastOp.from = "in-progress" /\ lastOp.to = "ready"

\* C4: no stored order goes from pending directly to ready: the write that
\* stores ready never finds pending in the store, and an order stored as ready
\* has been stored as in-progress before.
C4_ReadyOnlyViaInProgress ==
    /\ lastOp.to = "ready" => lastOp.from # "pending"
    /\ \A o \in OrderIds :
         orders[o].status = "ready" => "in-progress" \in everStatus[o]

\* C4 witness: an order is stored as ready by a Kitchen view that marked it
\* ready from a stale copy (the store no longer held in-progress).
C4_Witness ==
    /\ lastOp.op = "completeOrder"
    /\ lastOp.from \in {"ready", "served"}
    /\ orders[lastOp.order].status = "ready"

ReadyEvent(o) == [type |-> "order_ready", orderId |-> o, targetRole |-> "cashier"]

\* C5: for every order a cashier-targeted order_ready event is published
\* exactly once, and only by the change that moves the stored order from
\* in-progress to ready.
C5_ReadyPublishedOnce ==
    /\ \A o \in OrderIds :
         published[ReadyEvent(o)] = IF "ready" \in everStatus[o] THEN 1 ELSE 0
    /\ lastOp.op = "completeOrder" => lastOp.from = "in-progress"
    /\ lastOp.op = "startOrder" => published[ReadyEvent(lastOp.order)] = 0

\* ======================================================= the create claims
ItemsOfOrder(o) == {it \in orderItems : it.orderId = o}

RECURSIVE SumOf(_)
\* The sum of unit price x quantity over a set of order items.
SumOf(S) ==
    IF S = {} THEN 0
    ELSE LET it == CHOOSE x \in S : TRUE
         IN it.price * it.quantity + SumOf(S \ {it})

\* An order whose create succeeded (every store operation went through).
Succeeded(o) == created[o].path # "none" /\ created[o].ok

\* C6: every order persisted by a successful create, on either path, has
\* total = sum of unit price x quantity over its lines, tax = 16% of total,
\* serviceCharge = 5% of total, finalTotal = total + tax + serviceCharge -
\* discount; one line of price 100 and quantity 2 without discount gives
\* 200, 32, 10 and 242.
C6_FinancialFields ==
    \A o \in OrderIds :
        Succeeded(o) =>
            LET ord == orders[o]
                lines == created[o].lines
            IN /\ Cardinality(ItemsOfOrder(o)) = Len(lines)
               /\ \A it \in ItemsOfOrder(o) : it.totalPrice = it.price * it.quantity
               /\ ord.total = SumOf(ItemsOfOrder(o))
               /\ 100 * ord.tax = 16 * ord.total
               /\ 100 * ord.serviceCharge = 5 * ord.total
               /\ ord.discount = created[o].discount
               /\ ord.finalTotal = ord.total + ord.tax + ord.serviceCharge
                                   - created[o].discount
               /\ (Len(lines) = 1 /\ lines[1].price = 100 /\ lines[1].quantity = 2
                   /\ created[o].discount = 0)
                     => /\ ord.total = 200 /\ ord.tax = 32
                        /\ ord.serviceCharge = 10 /\ ord.finalTotal = 242

\* C6 witness: a sale of two lines with a discount has been persisted.
C6_Witness ==
    \E o \in OrderIds :
        /\ Succeeded(o)
        /\ created[o].path = "pos"
        /\ Len(created[o].lines) = 2
        /\ created[o].discount = 100
        /\ orders[o].total = 400
        /\ orders[o].finalTotal = 384

\* C7: after a successful create on table T, on either path, the stored status
\* of T is occupied.
C7_TableOccupiedAfterCreate ==
    \A o \in OrderIds :
        Succeeded(o) => tables[created[o].tableId] = "occupied"

CreatedEvent(o, r) == [type |-> "order_created", orderId |-> o, targetRole |-> r]

\* C8: every successful create publishes exactly one order_created event with
\* the new order's id and targetRole chef, the order and all of its items being
\* persisted by then; a create that fails publishes none.
C8_CreatedPublishedOnce ==
    \A o \in OrderIds :
        /\ published[CreatedEvent(o, "chef")] = IF Succeeded(o) THEN 1 ELSE 0
        /\ \A r \in Roles \ {"chef"} : published[CreatedEvent(o, r)] = 0
        /\ published[CreatedEvent(o, "chef")] > 0 =>
             /\ orders[o] # NoOrder
             /\ \A k \in 1..Len(created[o].lines) :
                  \E it \in ItemsOfOrder(o) :
                      /\ it.menuItemId = created[o].lines[k].id
                      /\ it.quantity = created[o].lines[k].quantity
        /\ \A k \in 1..Len(log) :
             (log[k].type = "order_created" /\ log[k].orderId = o)
                 => (Succeeded(o) /\ log[k].targetRole = "chef")

\* C8 witness: an order of two lines was sent to the kitchen and its event is
\* at the head of the log.
C8_Witness ==
    \E o \in OrderIds :
        /\ Succeeded(o)
        /\ created[o].path = "take"
        /\ Len(created[o].lines) = 2
        /\ log # <<>> /\ log[1] = CreatedEvent(o, "chef")

\* ========================================================= the stock claims
\* A step is a sale's processOrder when it records a create on the
\* immediate-sale path.
IsSale(o) == created[o].path = "none" /\ created'[o].path = "pos"

\* C9: an immediate sale of quantity q of a menu item whose stored stock is
\* less than q fails and leaves the stored stock unchanged, whatever stock the
\* selling view had loaded.
C9_InsufficientStockRejected ==
    [][\A o \in OrderIds :
         IsSale(o) =>
            \A k \in 1..Len(created'[o].lines) :
                LET l == created'[o].lines[k]
                IN menuItems[l.id].stock < l.quantity
                     => /\ ~created'[o].ok
                        /\ menuItems'[l.id].stock = menuItems[l.id].stock]_vars

\* C10 as claimed: after any interleaving of successful sales the stored stock
\* of an item is its initial stock minus the quantities sold of it.
C10_StockIsInitialMinusSold ==
    (\A o \in OrderIds : created[o].path = "pos" => created[o].ok)
        => \A i \in Items : menuItems[i].stock = InitStock - sold[i]

\* C10 amended: every stock write of a sale, for a cart line of quantity q,
\* stores (the stock the selling view has loaded for the item) - q; it lowers
\* the stored stock by exactly q when the stored stock is the one the view
\* has loaded.
C10_StockWrittenFromLoadedCopy ==
    [][\A o \in OrderIds :
         IsSale(o) =>
            \A k \in 1..created'[o].stockWritten :
                LET l == created'[o].lines[k]
                    loaded == pos[lastOp'.view].menuItems[l.id].stock
                IN /\ menuItems'[l.id].stock = loaded - l.quantity
                   /\ sold'[l.id] = sold[l.id] + l.quantity
                   /\ loaded = menuItems[l.id].stock
                        => menuItems'[l.id].stock = menuItems[l.id].stock - l.quantity]_vars

\* C10 witness: a sale of two units went through from a view whose loaded
\* stock was no longer the stored one, and the stored stock is not the
\* initial stock minus the quantities sold.
C10_Witness ==
    /\ lastOp.op = "processOrder"
    /\ created[lastOp.order].ok
    /\ created[lastOp.order].lines[1].quantity = 2
    /\ \E i \in Items : sold[i] > 0 /\ menuItems[i].stock # InitStock - sold[i]

\* ================================================= the notification claims
\* C11: once a view has handled every storage event sent to it, its alert has
\* fired exactly once for each event published by another view that targets
\* its role (and never more than once), however many entries the log and the
\* view's list held; the published event is in the log.
C11_AlertExactlyOnce ==
    \A v \in ListenViews : \A ev \in Events :
        (published[ev] = 1 /\ ev.targetRole = Role[v]) =>
            /\ alerts[v][ev] <= 1
            /\ inbox[v] = <<>> => alerts[v][ev] = 1
            /\ (\A k \in 1..Len(log) : log[k] \in {ev, OldEvent})
                  => \E k \in 1..Len(log) : log[k] = ev

\* ================================================= the create-error claims
CreateOps == {"sendOrderToKitchen", "processOrder"}

\* C12: a create handler called with an empty cart or with no table selected
\* fails (the caller is shown an error) and the step writes nothing to orders,
\* orderItems, tables, menuItems or payments and publishes no event.
C12_InvalidCreateWritesNothing ==
    [][(/\ attempt' # attempt
        /\ attempt'.op \in CreateOps
        /\ (attempt'.cart = <<>> \/ attempt'.tableId = NoTable))
           => /\ attempt'.result = "error"
              /\ UNCHANGED <<storeVars, log, published, inbox>>]_vars

\* C12 witness: a sale of two lines was submitted with no table selected and
\* refused, nothing being stored.
C12_Witness ==
    /\ attempt.op = "processOrder"
    /\ Len(attempt.cart) = 2
    /\ attempt.tableId = NoTable
    /\ attempt.result = "error"
    /\ orderItems = {}

\* A step is a create when it records one (on either path).
IsCreate(o) == created[o].path = "none" /\ created'[o].path # "none"

\* C13: a create succeeds only if the table's stored status is available when
\* it is called: on a table stored as occupied or reserved it fails and
\* persists nothing, also when another view opened an order on that table
\* after this view loaded its tables.
C13_StoredTableMustBeAvailable ==
    [][\A o \in OrderIds :
         (IsCreate(o) /\ tables[created'[o].tableId] # "available")
            => /\ ~created'[o].ok
               /\ UNCHANGED storeVars]_vars

\* =========================================================== the admin claim
AdminKViews == {k \in KViews : Role[k] = "admin"}
AdminOViews == {v \in OViews : Role[v] = "admin"}

\* Some handler of an admin's view acts on order o.
AdminStep(o) ==
    \/ \E k \in AdminKViews : startOrder(k, o) \/ completeOrder(k, o)
    \/ \E v \in AdminOViews : updateOrderStatus(v, o, "served")

\* The three forward edges are open to an admin whose view shows the order as
\* it is stored, and the step stores the new status.
AdminForwardEdges ==
    \A o \in OrderIds :
        /\ \A k \in AdminKViews :
              (orders[o] # NoOrder /\ kOrders[k][o] = Joined(orders[o])) =>
                 /\ orders[o].status = "pending" =>
                      ENABLED (startOrder(k, o) /\ orders'[o].status = "in-progress")
                 /\ orders[o].status = "in-progress" =>
                      ENABLED (completeOrder(k, o) /\ orders'[o].status = "ready")
        /\ \A v \in AdminOViews :
              (orders[o] # NoOrder /\ oOrders[v][o] = Joined(orders[o])
               /\ orders[o].status = "ready") =>
                 ENABLED (updateOrderStatus(v, o, "served")
                          /\ orders'[o].status = "served")

\* C14 as claimed: for an admin every edge of the state machine is available,
\* the three forward edges and the cancellation of any non-terminal order.
C14_AdminEveryEdge ==
    /\ AdminForwardEdges
    /\ \A o \in OrderIds :
          (orders[o] # NoOrder
           /\ orders[o].status \in {"pending", "in-progress", "ready"})
             => ENABLED (AdminStep(o) /\ orders'[o].status = "cancelled")

\* C14 amended: an admin can perform pending -> in-progress, in-progress ->
\* ready and ready -> served, each storing the new status; no handler of an
\* admin's view cancels an order.
C14_AdminForwardEdgesOnly ==
    /\ AdminForwardEdges
    /\ \A o \in OrderIds : ~ENABLED (AdminStep(o) /\ orders'[o].status = "cancelled")

\* C14 witness: the admin marked as served, in the Orders view, an order the
\* admin had started and completed in the Kitchen view.
C14_Witness ==
    /\ lastOp = Op("updateOrderStatus", "o3", 1, "ready", "served")
    /\ orders[1].status = "served"
    /\ alerts["k2"][[type |-> "order_ready", orderId |-> 1, targetRole |-> "cashier"]] > 0

\* ======================================================= the unknown order
\* The list a status handler searches: the loaded orders of its view.
ListOf(v) == IF v \in KViews THEN kOrders[v] ELSE oOrders[v]

C16_ListAtMostFifty ==
    [][/\ \A v \in Views : Len(notifications'[v]) <= LogKeep + 1
       /\ \A ev \in Events :
             published'[ev] # published[ev]
                => Head(notifications'[attempt'.view]) = ev]_vars

\* ============================================= notifications are advisory
\* A step of the notification bus alone: the log or a provider's state
\* changes and nothing is published (clear, reconciliation, reload).
BusOnlyStep ==
    /\ published' = published
    /\ <<log, notifyVars>>' # <<log, notifyVars>>

\* C17: clear and cross-view reconciliation never change a store collection,
\* a publishing step changes the store only as its handler's store operations
\* do, and a status change the acting view offers takes effect in the store
\* whatever the log holds and whatever has been delivered.
C17_NotificationsAdvisory ==
    [][/\ BusOnlyStep => UNCHANGED storeVars
       /\ \A ev \in Events :
             published'[ev] # published[ev] =>
                /\ UNCHANGED <<tables, menuItems, payments>> \/ attempt'.op \in CreateOps
                /\ attempt'.op = "completeOrder" =>
                     /\ orders'[ev.orderId].status = "ready"
                     /\ UNCHANGED <<orderItems, tables, menuItems, payments>>
       /\ \A k \in KViews, o \in OrderIds :
             (kOrders[k][o] # NoOrder /\ kOrders[k][o].status = "in-progress"
              /\ Role[k] \in {"chef", "admin"})
                => ENABLED (completeOrder(k, o) /\ orders'[o].status = "ready")
       /\ \A v \in OViews, o \in OrderIds :
             (oOrders[v][o] # NoOrder /\ oOrders[v][o].status = "ready"
              /\ Role[v] \in {"cashier", "admin"})
                => ENABLED (updateOrderStatus(v, o, "served")
                            /\ orders'[o].status = "served")]_vars

\* C17 witness: the cashier served an order after the log had been cleared,
\* while storage events were still waiting in the cashier's other tab.
C17_Witness ==
    /\ lastOp.op = "updateOrderStatus"
    /\ orders[lastOp.order].status = "served"
    /\ log = <<>>
    /\ published[ReadyEvent(lastOp.order)] = 1
    /\ inbox["p1"] # <<>>

\* ==================================================== the table-service path
\* C18: a call of sendOrderToKitchen, succeeding or failing, leaves the
\* menuItems collection as it was; a step that changes a stock is a call of
\* processOrder.
C18_TakeOrdersLeavesStock ==
    [][/\ (attempt' # attempt /\ attempt'.op = "sendOrderToKitchen")
            => menuItems' = menuItems
       /\ menuItems' # menuItems => attempt'.op = "processOrder"]_vars

\* C18 witness: two units of a menu item were sent to the kitchen and the
\* stock of every menu item is the seeded one.
C18_Witness ==
    /\ attempt.op = "sendOrderToKitchen"
    /\ attempt.result = "success"
    /\ \E k \in 1..Len(attempt.cart) : attempt.cart[k].quantity = 2
    /\ \A i \in Items : menuItems[i].stock = InitStock

\* ========================================================= partial failure
\* The create step in which the createOrderItem of cart line k + 1 threw, the
\* order and the items of the first k lines having been written.
ItemFailure(o, k) ==
    /\ IsCreate(o)
    /\ attempt'.order = o
    /\ k < Len(attempt'.cart)
    /\ \/ attempt'.op = "sendOrderToKitchen" /\ attempt'.failAt = k + 2
       \/ attempt'.op = "processOrder" /\ attempt'.failAt = 2 * k + 2

\* C19: when persisting an order item fails partway through a create, the
\* order record and the items written before stay in the store, the table is
\* not marked occupied, no order_created event is published and the caller is
\* shown the failure.
C19_PartialCreateStays ==
    [][\A o \in OrderIds : \A k \in 0..(Cardinality(Items) - 1) :
         ItemFailure(o, k) =>
            /\ orders'[o] # NoOrder /\ orders'[o].status = "pending"
            /\ Cardinality({it \in orderItems' : it.orderId = o}) = k
            /\ \A j \in 1..k :
                  \E it \in orderItems' :
                      /\ it.orderId = o
                      /\ it.menuItemId = attempt'.cart[j].id
                      /\ it.quantity = attempt'.cart[j].quantity
            /\ tables' = tables
            /\ published' = published /\ log' = log
            /\ attempt'.result = "error"]_vars

\* C19 witness: a sale of two lines failed at its second order item; the order
\* and its first item are stored.
C19_Witness ==
    /\ attempt.op = "processOrder"
    /\ attempt.failAt = 4
    /\ Len(attempt.cart) = 2
    /\ orders[attempt.order] # NoOrder
    /\ Cardinality(ItemsOfOrder(attempt.order)) = 1
    /\ attempt.result = "error"

\* ================================================== cross-view reconciliation
\* Every listening view has handled its storage events, run its effect and
\* holds the log.
Reconciled ==
    \A v \in ListenViews :
        inbox[v] = <<>> /\ ~EffectDue(v) /\ notifications[v] = log

\* C20: a view that handles the storage event of another view's write to the
\* log takes over the log contents (those of that write, or the current ones
\* when its reload effect runs with it); and once nothing more is published,
\* every listening view's list eventually equals the log and stays so.
C20_ListsReconcile ==
    /\ [][\A v \in ListenViews :
            (inbox[v] # <<>> /\ inbox'[v] = Tail(inbox[v]))
               => notifications'[v] \in {Head(inbox[v]), log}]_vars
    /\ <>[]Reconciled

\* C20 witness: the order's two events have been published by two views and
\* the cashier's view, which published neither, holds the log.
C20_Witness ==
    /\ Len(log) >= 2
    /\ log[1].type = "order_ready" /\ log[2].type = "order_created"
    /\ log[1].orderId \in OrderIds /\ log[2].orderId \in OrderIds
    /\ inbox["p1"] = <<>>
    /\ notifications["p1"] = log

\* ============================================= the store and the log, framed
\* The entries of old are the last entries of new, in their order.
KeepsEntries(old, new) ==
    /\ Len(new) >= Len(old)
    /\ SubSeq(new, Len(new) - Len(old) + 1, Len(new)) = old

\* C21: the log is append-only: every step that is not clearNotifications (the
\* only step that leaves the log empty) keeps every entry the log held.
C21_LogAppendOnly ==
    [][log' # <<>> => KeepsEntries(log, log')]_vars

\* What a reload that reads the orders collection as store displays in a list
\* view showing the orders whose status is in visible: each of them with the
\* fields as stored, joined with its table and items, and no other order.
Displays(list, store, visible) ==
    \A o \in OrderIds :
        list[o] = IF store[o] # NoOrder /\ store[o].status \in visible
                  THEN [store[o] EXCEPT !.joined = TRUE]
                  ELSE NoOrder

KitchenVisible == {"pending", "in-progress"}

\* Every mounted list view displays the store as it is.
Fresh ==
    /\ \A k \in KViews :
         page[k].mounted => Displays(kOrders[k], orders, KitchenVisible)
    /\ \A v \in {"o1"} :
         page[v].mounted => Displays(oOrders[v], orders, Status)

\* C22: a polling tick leaves the view's list equal to the store's orders as
\* the tick read them (the Kitchen view listing the pending and in-progress
\* ones, the Orders view all of them), so every status change stored before
\* the tick is shown after it; and a mounted view's list does not stay behind
\* the store: once the store stops changing, every mounted list view shows it.
C22_StalenessBounded ==
    /\ [][/\ \A k \in KViews :
               KitchenLoadOrders(k) => Displays(kOrders'[k], orders, KitchenVisible)
          /\ \A v \in {"o1"} :
               OrdersLoadOrders(v) => Displays(oOrders'[v], orders, Status)]_vars
    /\ <>[]Fresh

\* C22 witness: the chef's view has taken the order to ready and the cashier's
\* mounted Orders view, which can only have learnt it from a reload, shows it.
C22_Witness ==
    /\ orders[1] # NoOrder /\ orders[1].status = "ready"
    /\ page["o1"].mounted /\ page["k1"].mounted
    /\ oOrders["o1"][1] # NoOrder /\ oOrders["o1"][1].status = "ready"
    /\ kOrders["k1"][1] = NoOrder

\* C23: a Kitchen or Orders view that has been torn down has no live interval
\* and its polling tick cannot happen, in every state until it is mounted
\* again.
C23_NoTickAfterTeardown ==
    /\ \A k \in KViews :
         ~page[k].mounted => ~page[k].interval /\ ~ENABLED KitchenLoadOrders(k)
    /\ \A v \in OViews :
         ~page[v].mounted => ~page[v].interval /\ ~ENABLED OrdersLoadOrders(v)

\* C23 witness: both list views are torn down while the store holds a pending
\* order that neither of them would be showing.
C23_Witness ==
    /\ ~page["k1"].mounted /\ ~page["o1"].mounted
    /\ orders[1] # NoOrder /\ orders[1].status = "pending"

\* C24: every stored order item names a stored order and a stored menu item.
\* (An order item carries one orderId, so it belongs to one order.)
C24_OrderItemsReferToStored ==
    \A it \in orderItems :
        /\ it.orderId \in OrderIds /\ orders[it.orderId] # NoOrder
        /\ it.menuItemId \in Items /\ menuItems[it.menuItemId] # NoItem

\* The step is a sale: processOrder got past its createOrder.
SaleStep ==
    /\ attempt' # attempt
    /\ attempt'.op = "processOrder"
    /\ attempt'.failAt # 1
    /\ attempt'.result \in {"success", "error"}
    /\ attempt'.cart # <<>> /\ attempt'.tableId # NoTable

\* C30: a sale changes nothing of a stored menu item but its stock: the price
\* stays as stored, an item that is not in the cart is untouched, and an item
\* that is not stored when the sale writes is not stored afterwards.
C30_SaleWritesOnlyStock ==
    [][SaleStep =>
         \A i \in Items :
            /\ menuItems'[i].price = menuItems[i].price
            /\ i \notin CartIds(attempt'.cart) => menuItems'[i] = menuItems[i]
            /\ menuItems[i] = NoItem => menuItems'[i] = NoItem]_vars

\* C25: an order enters the store with status pending, and a stored order
\* stays stored.
C25_OrdersStartPendingAndStay ==
    [][\A o \in OrderIds :
         /\ (orders[o] = NoOrder /\ orders'[o] # NoOrder)
               => orders'[o].status = "pending"
         /\ orders[o] # NoOrder => orders'[o] # NoOrder]_vars

\* C25 witness: an order has been through every status change and is still
\* stored.
C25_Witness ==
    /\ orders[1] # NoOrder /\ orders[1].status = "served"
    /\ everStatus[1] = {"pending", "in-progress", "ready", "served"}

\* C26: no step sets an occupied table back to available, and the only change
\* of a table is available -> occupied for the table of the order the step
\* creates.
C26_OccupiedStaysOccupied ==
    [][/\ \A tb \in Tables : tables[tb] = "occupied" => tables'[tb] = "occupied"
       /\ tables' # tables
            => \E tb \in Tables :
                 /\ tables' = [tables EXCEPT ![tb] = "occupied"]
                 /\ nextOrderId' = nextOrderId + 1
                 /\ orders'[nextOrderId] # NoOrder
                 /\ orders'[nextOrderId].tableId = tb]_vars

\* C26 witness: the order sent on table T1 has been through every status
\* change up to served, and the table is still occupied.
C26_Witness ==
    \E o \in OrderIds :
        /\ created[o].path = "take" /\ created[o].ok /\ created[o].tableId = "T1"
        /\ orders[o].status = "served"
        /\ tables["T1"] = "occupied"

\* C27: no stored order has status cancelled.
C27_NeverCancelled ==
    \A o \in OrderIds :
        orders[o] # NoOrder
            => orders[o].status \in {"pending", "in-progress", "ready", "served"}

\* C27 witness: the admin's Orders view, which may do every status change, has
\* made the one the page offers.
C27_Witness ==
    /\ lastOp.op = "updateOrderStatus" /\ Role[lastOp.view] = "admin"
    /\ orders[lastOp.order].status = "served"

OrderFields ==
    {"id", "tableId", "waiterId", "total", "discount", "tax", "serviceCharge",
     "finalTotal"}

\* C29: a step that changes the stored orders without creating one (a status
\* change) changes one stored order, and of it nothing but the status: the
\* other fields keep their stored values and no field is added (the record
\* does not become one joined with items and table); order items, tables,
\* menu items and payments are unchanged.
C29_StatusChangeWritesOnlyStatus ==
    [][(orders' # orders /\ nextOrderId' = nextOrderId) =>
         /\ \E o \in OrderIds :
              /\ orders[o] # NoOrder /\ orders'[o] # NoOrder
              /\ \A f \in OrderFields : orders'[o][f] = orders[o][f]
              /\ orders'[o].joined = orders[o].joined
              /\ \A q \in OrderIds \ {o} : orders'[q] = orders[q]
         /\ UNCHANGED <<orderItems, tables, menuItems, payments>>]_vars
====
